---- MODULE Spec2Model ----
(***************************************************************************)
(* Model of the conversational RAG bot of src/RAG/run_astrobot.py          *)
(* (ConversationalRAGBot and its __main__ chat loop, specification Spec),  *)
(* of the history store on its own (SpecStore) and of the script           *)
(* src/RAG/rag_astrobot.py (SpecRag).                                      *)
(*                                                                         *)
(* Disk state: the pickle file holding the conversation history and the    *)
(* Chroma persist directory.  Process state: the in-memory history, the    *)
(* LangChain memory (dialogue context) and the position of the single      *)
(* thread of control.                                                      *)
(***************************************************************************)
EXTENDS Integers, Sequences, FiniteSets, TLC

VARIABLES
    pc,                    \* position of the process ("Off" = no process)
    pickle_file,           \* conversation_memory.pkl: NoFile or its bytes
    chroma_db,             \* documents stored in the Chroma persist directory
    conversation_history,  \* self.conversation_history
    memory,                \* self.memory.chat_memory.messages
    user_input,            \* argument of the chat() call in progress
    answer,                \* response['answer'] of the chat() call in progress
    raised_at,             \* where the pending/last exception was raised
    exit_status,           \* how the last process ended
    runs,                  \* number of process starts so far
    nOK,                   \* number of chat() calls that returned
    attempted,             \* commit steps attempted by the chat() in progress
    pre,                   \* disk and memory state when the turn (rag: the run) began
    loaded,                \* SpecStore: what the load returned
    doc_path,              \* __main__: path typed after 'add a document'
    loader,                \* __main__: class of the loader chosen for it
    warned,                \* __main__: "Unsupported file type" was printed
    splits                 \* __main__: chunks returned by the splitter

vars == <<pc, pickle_file, chroma_db, conversation_history, memory,
          user_input, answer, raised_at, exit_status, runs, nOK,
          attempted, pre, loaded, doc_path, loader, warned, splits>>

ingest == <<doc_path, loader, warned, splits>>

----------------------------------------------------------------------------
(* Bounds *)

MaxRuns == 2        \* process starts
MaxExchanges == 2   \* exchanges held by the in-memory history
MaxStoreLen == 3    \* history length in the store specification
MaxChunks == 1      \* chunks the splitter returns for one document
MaxOtherDocs == 1   \* index documents that are not exchanges

Queries == {"q1", "q2"}
Answers == {"a1"}
Contents == Queries \cup Answers
Roles == {"HumanMessage", "AIMessage"}
ExitKeywords == {"quit", "exit", "shutdown", "power down", "bye"}

(* Lines typed at the "Query: " prompt, and str.lower() on them. *)
Lines == Queries \cup ExitKeywords \cup {"Quit", "BYE", "add a document", "Add a Document"}

Lower(line) ==
    CASE line = "Quit" -> "quit"
      [] line = "BYE" -> "bye"
      [] line = "Add a Document" -> "add a document"
      [] OTHER -> line

(* Paths typed at the "Enter document path: " prompt, character by character. *)
Paths == {<<"a", ".", "t", "x", "t">>,
          <<"a", ".", "p", "d", "f">>,
          <<"a", ".", "d", "o", "c", "x">>,
          <<"a", ".", "m", "d">>,
          <<"a", ".", "P", "D", "F">>,
          <<"t", "x", "t">>}

NoFile == <<"ENOENT">>
None == <<"None">>
NoTurn == <<"no turn">>

----------------------------------------------------------------------------
(* Pure helpers *)

RECURSIVE Flatten(_)
Flatten(ss) == IF ss = <<>> THEN <<>> ELSE Head(ss) \o Flatten(Tail(ss))

Prefixes(bytes) == {SubSeq(bytes, 1, k) : k \in 0..(Len(bytes) - 1)}

(* pickle.dump of a list of dicts {'role':..., 'content':...}: a protocol  *)
(* header, one group per dict, and the STOP opcode that ends every pickle. *)
PickleDump(hist) ==
    <<"PROTO">>
      \o Flatten([i \in 1..Len(hist) |-> <<"DICT", hist[i].role, hist[i].content>>])
      \o <<"STOP">>

(* A byte string unpickles only if it runs from the header to STOP. *)
WellFormed(bytes, tag) ==
    /\ Len(bytes) >= 2
    /\ bytes[1] = "PROTO"
    /\ bytes[Len(bytes)] = "STOP"
    /\ (Len(bytes) - 2) % 3 = 0
    /\ \A j \in 1..((Len(bytes) - 2) \div 3) : bytes[3 * j - 1] = tag

PickleLoad(bytes) ==
    [i \in 1..((Len(bytes) - 2) \div 3) |->
        [role |-> bytes[3 * i], content |-> bytes[3 * i + 1]]]

(* _load_pickle with the unpickling error swallowed: a malformed file      *)
(* reads as no history.                                                    *)
_load_pickle_Swallow(file) ==
    IF file = NoFile THEN [raise |-> FALSE, value |-> <<>>]
    ELSE IF WellFormed(file, "DICT") THEN [raise |-> FALSE, value |-> PickleLoad(file)]
    ELSE [raise |-> FALSE, value |-> <<>>]

(* _load_pickle: [] when the file does not exist, the unpickled list when   *)
(* it does; "raise" stands for the exception pickle.load throws.            *)
_load_pickle(file) ==
    IF file = NoFile THEN [raise |-> FALSE, value |-> <<>>]
    ELSE IF WellFormed(file, "DICT") THEN [raise |-> FALSE, value |-> PickleLoad(file)]
    ELSE [raise |-> TRUE, value |-> <<>>]

CombinedText(human, ai) == <<"Human: ", human, "\nAssistant: ", ai>>

(* _add_history_to_vectorstore skipping the next message whatever its role. *)
RECURSIVE HistoryDocuments_AlwaysSkips(_, _)
HistoryDocuments_AlwaysSkips(hist, i) ==
    IF i > Len(hist) THEN <<>>
    ELSE IF hist[i].role = "HumanMessage"
         THEN IF i + 1 <= Len(hist) /\ hist[i + 1].role = "AIMessage"
              THEN <<CombinedText(hist[i].content, hist[i + 1].content)>>
                     \o HistoryDocuments_AlwaysSkips(hist, i + 2)
              ELSE <<CombinedText(hist[i].content, "")>>
                     \o HistoryDocuments_AlwaysSkips(hist, i + 2)
         ELSE HistoryDocuments_AlwaysSkips(hist, i + 1)

(* The while loop of _add_history_to_vectorstore, from index i (1-based). *)
RECURSIVE HistoryDocuments(_, _)
HistoryDocuments(hist, i) ==
    IF i > Len(hist) THEN <<>>
    ELSE IF hist[i].role = "HumanMessage"
         THEN IF i + 1 <= Len(hist) /\ hist[i + 1].role = "AIMessage"
              THEN <<CombinedText(hist[i].content, hist[i + 1].content)>>
                     \o HistoryDocuments(hist, i + 2)
              ELSE <<CombinedText(hist[i].content, "")>>
                     \o HistoryDocuments(hist, i + 1)
         ELSE HistoryDocuments(hist, i + 1)

(* _populate_memory testing the role against 'Human': every message is    *)
(* replayed as an AIMessage.                                               *)
PopulatedMemory_WrongTag(hist) ==
    [i \in 1..Len(hist) |->
        IF hist[i].role = "Human"
        THEN [type |-> "HumanMessage", content |-> hist[i].content]
        ELSE [type |-> "AIMessage", content |-> hist[i].content]]

(* _populate_memory: one memory message per history message, in order. *)
PopulatedMemory(hist) ==
    [i \in 1..Len(hist) |->
        IF hist[i].role = "HumanMessage"
        THEN [type |-> "HumanMessage", content |-> hist[i].content]
        ELSE [type |-> "AIMessage", content |-> hist[i].content]]

(* ConversationBufferMemory.save_context, called by the chain on success. *)
SaveContext(mem, q, a) ==
    mem \o <<[type |-> "HumanMessage", content |-> q],
             [type |-> "AIMessage", content |-> a]>>

(* str.endswith *)
EndsWith(str, suffix) ==
    /\ Len(str) >= Len(suffix)
    /\ SubSeq(str, Len(str) - Len(suffix) + 1, Len(str)) = suffix

(* Loader selection with a silent fallback. *)
LoaderFor_NoWarning(path) ==
    IF EndsWith(path, <<".", "t", "x", "t">>)
    THEN [loader |-> "TextLoader", warned |-> FALSE]
    ELSE IF EndsWith(path, <<".", "p", "d", "f">>)
    THEN [loader |-> "PyPDFLoader", warned |-> FALSE]
    ELSE IF EndsWith(path, <<".", "d", "o", "c", "x">>)
    THEN [loader |-> "Docx2txtLoader", warned |-> FALSE]
    ELSE [loader |-> "TextLoader", warned |-> FALSE]

(* Lines 197-205: the loader by file extension; any other path gets the   *)
(* TextLoader after "Unsupported file type. Attempting TextLoader...".    *)
LoaderFor(path) ==
    IF EndsWith(path, <<".", "t", "x", "t">>)
    THEN [loader |-> "TextLoader", warned |-> FALSE]
    ELSE IF EndsWith(path, <<".", "p", "d", "f">>)
    THEN [loader |-> "PyPDFLoader", warned |-> FALSE]
    ELSE IF EndsWith(path, <<".", "d", "o", "c", "x">>)
    THEN [loader |-> "Docx2txtLoader", warned |-> FALSE]
    ELSE [loader |-> "TextLoader", warned |-> TRUE]

(* Documents of the index that are not combined exchanges. *)
IsOtherDocument(d) == d[1] # "Human: "

OtherDocuments(index) == SelectSeq(index, IsOtherDocument)

----------------------------------------------------------------------------
(* rag_astrobot.py: memory <-> file *)

_serialize_messages(messages) ==
    [i \in 1..Len(messages) |-> <<messages[i].type, messages[i].content>>]

(* _deserialize_messages testing the role against "Human". *)
_deserialize_messages_WrongTag(data) ==
    [i \in 1..Len(data) |->
        IF data[i][1] = "Human"
        THEN [type |-> "HumanMessage", content |-> data[i][2]]
        ELSE [type |-> "AIMessage", content |-> data[i][2]]]

_deserialize_messages(data) ==
    [i \in 1..Len(data) |->
        IF data[i][1] = "HumanMessage"
        THEN [type |-> "HumanMessage", content |-> data[i][2]]
        ELSE [type |-> "AIMessage", content |-> data[i][2]]]

(* pickle.dump / pickle.load of a list of (role, content) tuples. *)
PickleDumpPairs(data) ==
    <<"PROTO">>
      \o Flatten([i \in 1..Len(data) |-> <<"TUPLE2", data[i][1], data[i][2]>>])
      \o <<"STOP">>

PickleLoadPairs(bytes) ==
    [i \in 1..((Len(bytes) - 2) \div 3) |-> <<bytes[3 * i], bytes[3 * i + 1]>>]

(* Lines 89-98: saved is None when the file is missing; the memory is      *)
(* replaced only when saved is truthy.                                     *)
RagLoadMemory(file) ==
    IF file = NoFile THEN [raise |-> FALSE, value |-> <<>>]
    ELSE IF WellFormed(file, "TUPLE2")
         THEN [raise |-> FALSE,
               value |-> IF PickleLoadPairs(file) # <<>>
                         THEN _deserialize_messages(PickleLoadPairs(file))
                         ELSE <<>>]
    ELSE [raise |-> TRUE, value |-> <<>>]

----------------------------------------------------------------------------
(* State shared by the actions *)

Message(role, content) == [role |-> role, content |-> content]

Snapshot == [h |-> conversation_history, m |-> memory,
             f |-> pickle_file, c |-> chroma_db]

(* The process is gone: nothing of its memory survives. *)
ProcessGone ==
    /\ conversation_history' = <<>>
    /\ memory' = <<>>
    /\ user_input' = None
    /\ answer' = None
    /\ attempted' = {}
    /\ pre' = NoTurn
    /\ doc_path' = None
    /\ loader' = None
    /\ warned' = FALSE
    /\ splits' = <<>>

Init ==
    /\ pc = "Off"
    /\ pickle_file = NoFile
    /\ chroma_db = <<>>
    /\ conversation_history = <<>>
    /\ memory = <<>>
    /\ user_input = None
    /\ answer = None
    /\ raised_at = "none"
    /\ exit_status = "none"
    /\ runs = 0
    /\ nOK = 0
    /\ attempted = {}
    /\ pre = NoTurn
    /\ loaded = None
    /\ doc_path = None
    /\ loader = None
    /\ warned = FALSE
    /\ splits = <<>>

----------------------------------------------------------------------------
(* Startup: ConversationalRAGBot.__init__ *)

(* python run_astrobot.py *)
Start ==
    /\ pc = "Off"
    /\ runs < MaxRuns
    /\ pc' = "LoadPickle"
    /\ runs' = runs + 1
    /\ raised_at' = "none"
    /\ exit_status' = "running"
    /\ UNCHANGED <<pickle_file, chroma_db, conversation_history, memory,
                   user_input, answer, nOK, attempted, pre, loaded,
                   ingest>>

(* self.conversation_history = self._load_pickle() *)
LoadPickle ==
    /\ pc = "LoadPickle"
    /\ LET r == _load_pickle(pickle_file) IN
         IF r.raise
         THEN /\ pc' = "Raised"
              /\ raised_at' = "LoadPickle"
              /\ UNCHANGED conversation_history
         ELSE /\ pc' = "InitVectorstore"
              /\ conversation_history' = r.value
              /\ UNCHANGED raised_at
    /\ UNCHANGED <<pickle_file, chroma_db, memory, user_input, answer,
                   exit_status, runs, nOK, attempted, pre, loaded,
                   ingest>>

(* self.vectorstore = self._initialize_vectorstore(): both branches open   *)
(* the same persist directory; a non-empty history is then added to it.    *)
InitVectorstore ==
    /\ pc = "InitVectorstore"
    /\ chroma_db' = IF conversation_history # <<>>
                    THEN chroma_db \o HistoryDocuments(conversation_history, 1)
                    ELSE chroma_db
    /\ pc' = "PopulateMemory"
    /\ UNCHANGED <<pickle_file, conversation_history, memory, user_input,
                   answer, raised_at, exit_status, runs, nOK, attempted,
                   pre, loaded, ingest>>

(* Chroma(...) or vectorstore.add_documents raises during startup. *)
InitVectorstoreFail ==
    /\ pc = "InitVectorstore"
    /\ pc' = "Raised"
    /\ raised_at' = "InitVectorstore"
    /\ UNCHANGED <<pickle_file, chroma_db, conversation_history, memory,
                   user_input, answer, exit_status, runs, nOK, attempted,
                   pre, loaded, ingest>>

(* ConversationBufferMemory(), _populate_memory(), chain construction;     *)
(* the process then waits at input("Query: ").                             *)
PopulateMemory ==
    /\ pc = "PopulateMemory"
    /\ memory' = PopulatedMemory(conversation_history)
    /\ pc' = "Idle"
    /\ UNCHANGED <<pickle_file, chroma_db, conversation_history, user_input,
                   answer, raised_at, exit_status, runs, nOK, attempted,
                   pre, loaded, ingest>>

----------------------------------------------------------------------------
(* The chat loop of __main__ and ConversationalRAGBot.chat *)

(* An exit keyword ends the loop and the process. *)
Quit ==
    /\ pc = "Idle"
    /\ \E line \in Lines : Lower(line) \in ExitKeywords
    /\ pc' = "Off"
    /\ exit_status' = "clean"
    /\ ProcessGone
    /\ UNCHANGED <<pickle_file, chroma_db, raised_at, runs, nOK, loaded>>

(* chat() recording the question in the history before the chain runs. *)
BeginChat_AppendsEarly ==
    /\ pc = "Idle"
    /\ Len(conversation_history) < 2 * MaxExchanges
    /\ \E q \in Queries :
         /\ user_input' = q
         /\ conversation_history' =
                Append(conversation_history, Message("HumanMessage", q))
    /\ pre' = Snapshot
    /\ attempted' = {}
    /\ pc' = "Retrieving"
    /\ UNCHANGED <<pickle_file, chroma_db, memory, answer, raised_at,
                   exit_status, runs, nOK, loaded, ingest>>

(* Any other line is a query: bot.chat(user_input) is entered. *)
BeginChat ==
    /\ pc = "Idle"
    /\ Len(conversation_history) < 2 * MaxExchanges
    /\ \E q \in Lines :
         /\ Lower(q) \notin ExitKeywords
         /\ Lower(q) # "add a document"
         /\ user_input' = q
    /\ pre' = Snapshot
    /\ attempted' = {}
    /\ pc' = "Retrieving"
    /\ UNCHANGED <<pickle_file, chroma_db, conversation_history, memory,
                   answer, raised_at, exit_status, runs, nOK, loaded,
                   ingest>>

(* chat() committing right after retrieval, without the generation call. *)
RetrieveOK_SkipsGeneration ==
    /\ pc = "Retrieving"
    /\ pc' = "Append"
    /\ UNCHANGED <<pickle_file, chroma_db, conversation_history, memory,
                   user_input, answer, raised_at, exit_status, runs, nOK,
                   attempted, pre, loaded, ingest>>

(* self.chain({"question": user_input}): the retriever returns. *)
RetrieveOK ==
    /\ pc = "Retrieving"
    /\ pc' = "Generating"
    /\ UNCHANGED <<pickle_file, chroma_db, conversation_history, memory,
                   user_input, answer, raised_at, exit_status, runs, nOK,
                   attempted, pre, loaded, ingest>>

(* The retriever (embedding, similarity search) raises. *)
RetrieveFail ==
    /\ pc = "Retrieving"
    /\ pc' = "Raised"
    /\ raised_at' = "Retrieving"
    /\ UNCHANGED <<pickle_file, chroma_db, conversation_history, memory,
                   user_input, answer, exit_status, runs, nOK, attempted,
                   pre, loaded, ingest>>

(* The LLM answers; the chain saves question and answer into its memory    *)
(* and returns response['answer'].                                         *)
GenerateOK ==
    /\ pc = "Generating"
    /\ \E a \in Answers :
         /\ answer' = a
         /\ memory' = SaveContext(memory, user_input, a)
    /\ pc' = "Append"
    /\ UNCHANGED <<pickle_file, chroma_db, conversation_history, user_input,
                   raised_at, exit_status, runs, nOK, attempted, pre, loaded,
                   ingest>>

(* The LLM call raises: the chain saves nothing. *)
GenerateFail ==
    /\ pc = "Generating"
    /\ pc' = "Raised"
    /\ raised_at' = "Generating"
    /\ UNCHANGED <<pickle_file, chroma_db, conversation_history, memory,
                   user_input, answer, exit_status, runs, nOK, attempted,
                   pre, loaded, ingest>>

(* chat() saving the history without adding the exchange to the index. *)
AppendExchange_SkipsIndex ==
    /\ pc = "Append"
    /\ conversation_history' =
           conversation_history
             \o <<Message("HumanMessage", user_input), Message("AIMessage", answer)>>
    /\ pc' = "SaveOpen"
    /\ UNCHANGED <<pickle_file, chroma_db, memory, user_input, answer,
                   raised_at, exit_status, runs, nOK, attempted, pre, loaded,
                   ingest>>

(* Lines 153-154: both messages are appended to the in-memory history. *)
AppendExchange ==
    /\ pc = "Append"
    /\ conversation_history' =
           conversation_history
             \o <<Message("HumanMessage", user_input), Message("AIMessage", answer)>>
    /\ pc' = "IndexAdd"
    /\ UNCHANGED <<pickle_file, chroma_db, memory, user_input, answer,
                   raised_at, exit_status, runs, nOK, attempted, pre, loaded,
                   ingest>>

(* chat() indexing the two messages as two documents. *)
IndexAddOK_PerMessage ==
    /\ pc = "IndexAdd"
    /\ chroma_db' = chroma_db \o <<CombinedText(user_input, ""),
                                    CombinedText("", answer)>>
    /\ attempted' = attempted \cup {"index"}
    /\ pc' = "SaveOpen"
    /\ UNCHANGED <<pickle_file, conversation_history, memory, user_input,
                   answer, raised_at, exit_status, runs, nOK, pre, loaded,
                   ingest>>

(* Lines 157-158: the combined exchange is added to the vector store. *)
IndexAddOK ==
    /\ pc = "IndexAdd"
    /\ chroma_db' = Append(chroma_db, CombinedText(user_input, answer))
    /\ attempted' = attempted \cup {"index"}
    /\ pc' = "SaveOpen"
    /\ UNCHANGED <<pickle_file, conversation_history, memory, user_input,
                   answer, raised_at, exit_status, runs, nOK, pre, loaded,
                   ingest>>

(* vectorstore.add_documents raises; chat() is left at line 158. *)
IndexAddFail ==
    /\ pc = "IndexAdd"
    /\ attempted' = attempted \cup {"index"}
    /\ pc' = "Raised"
    /\ raised_at' = "IndexAdd"
    /\ UNCHANGED <<pickle_file, chroma_db, conversation_history, memory,
                   user_input, answer, exit_status, runs, nOK, pre, loaded,
                   ingest>>

(* _save_pickle, line 76: open(path, 'wb') creates or truncates the file. *)
SaveOpenOK ==
    /\ pc = "SaveOpen"
    /\ pickle_file' = <<>>
    /\ attempted' = attempted \cup {"persist"}
    /\ pc' = "SaveDump"
    /\ UNCHANGED <<chroma_db, conversation_history, memory, user_input,
                   answer, raised_at, exit_status, runs, nOK, pre, loaded,
                   ingest>>

(* open() raises (permission denied): the file is not touched. *)
SaveOpenFail ==
    /\ pc = "SaveOpen"
    /\ attempted' = attempted \cup {"persist"}
    /\ pc' = "Raised"
    /\ raised_at' = "SaveOpen"
    /\ UNCHANGED <<pickle_file, chroma_db, conversation_history, memory,
                   user_input, answer, exit_status, runs, nOK, pre, loaded,
                   ingest>>

(* _save_pickle, line 77, then return answer and print: back at input(). *)
SaveDumpOK ==
    /\ pc = "SaveDump"
    /\ pickle_file' = PickleDump(conversation_history)
    /\ nOK' = nOK + 1
    /\ pc' = "Idle"
    /\ user_input' = None
    /\ answer' = None
    /\ attempted' = {}
    /\ pre' = NoTurn
    /\ UNCHANGED <<chroma_db, conversation_history, memory, raised_at,
                   exit_status, runs, loaded, ingest>>

(* _save_pickle wrapped in "try: ... except: pass": chat() returns. *)
SaveDumpFail_Swallowed ==
    /\ pc = "SaveDump"
    /\ pickle_file' \in Prefixes(PickleDump(conversation_history))
    /\ pc' = "Idle"
    /\ user_input' = None
    /\ answer' = None
    /\ attempted' = {}
    /\ pre' = NoTurn
    /\ UNCHANGED <<chroma_db, conversation_history, memory, raised_at,
                   exit_status, runs, nOK, loaded, ingest>>

(* pickle.dump raises part-way (disk full): a prefix has been written. *)
SaveDumpFail ==
    /\ pc = "SaveDump"
    /\ pickle_file' \in Prefixes(PickleDump(conversation_history))
    /\ pc' = "Raised"
    /\ raised_at' = "SaveDump"
    /\ UNCHANGED <<chroma_db, conversation_history, memory, user_input,
                   answer, exit_status, runs, nOK, attempted, pre, loaded,
                   ingest>>

----------------------------------------------------------------------------
(* The 'add a document' branch of the chat loop *)

ResetIngest ==
    /\ doc_path' = None
    /\ loader' = None
    /\ warned' = FALSE
    /\ splits' = <<>>

(* Line 192: the line, lower-cased, is 'add a document'. *)
IngestBegin ==
    /\ pc = "Idle"
    /\ Len(OtherDocuments(chroma_db)) < MaxOtherDocs
    /\ \E line \in Lines : Lower(line) = "add a document"
    /\ pc' = "DocPath"
    /\ UNCHANGED <<pickle_file, conversation_history, memory, user_input,
                   answer, raised_at, exit_status, runs, nOK, attempted,
                   pre, loaded, chroma_db, ingest>>

(* Lines 193-205: the path is read and the loader is chosen. *)
ChooseLoader ==
    /\ pc = "DocPath"
    /\ \E path \in Paths :
         /\ doc_path' = path
         /\ loader' = LoaderFor(path).loader
         /\ warned' = LoaderFor(path).warned
    /\ pc' = "Loading"
    /\ UNCHANGED <<pickle_file, conversation_history, memory, user_input,
                   answer, raised_at, exit_status, runs, nOK, attempted,
                   pre, loaded, chroma_db, splits>>

(* Line 208: loader.load() returns the documents. *)
LoadDocumentOK ==
    /\ pc = "Loading"
    /\ pc' = "Splitting"
    /\ UNCHANGED <<pickle_file, conversation_history, memory, user_input,
                   answer, raised_at, exit_status, runs, nOK, attempted,
                   pre, loaded, chroma_db, ingest>>

(* loader.load() raises (no such file, not decodable, not a PDF). *)
LoadDocumentFail ==
    /\ pc = "Loading"
    /\ pc' = "IngestError"
    /\ UNCHANGED <<pickle_file, conversation_history, memory, user_input,
                   answer, raised_at, exit_status, runs, nOK, attempted,
                   pre, loaded, chroma_db, ingest>>

(* Lines 211-215: RecursiveCharacterTextSplitter(500, 50) returns chunks. *)
SplitOK ==
    /\ pc = "Splitting"
    /\ \E n \in 0..MaxChunks :
         /\ Len(OtherDocuments(chroma_db)) + n <= MaxOtherDocs
         /\ splits' = [k \in 1..n |-> <<"chunk", k>>]
    /\ pc' = "Adding"
    /\ UNCHANGED <<pickle_file, conversation_history, memory, user_input,
                   answer, raised_at, exit_status, runs, nOK, attempted,
                   pre, loaded, chroma_db, doc_path, loader, warned>>

(* split_documents raises. *)
SplitFail ==
    /\ pc = "Splitting"
    /\ pc' = "IngestError"
    /\ UNCHANGED <<pickle_file, conversation_history, memory, user_input,
                   answer, raised_at, exit_status, runs, nOK, attempted,
                   pre, loaded, chroma_db, ingest>>

(* bot.vectorstore.add_documents(splits) with the history touched too. *)
AddSplitsOK_Logged ==
    /\ pc = "Adding"
    /\ chroma_db' = chroma_db \o splits
    /\ conversation_history' =
           Append(conversation_history, Message("HumanMessage", "add a document"))
    /\ pc' = "IngestDone"
    /\ UNCHANGED <<pickle_file, memory, user_input, answer, raised_at,
                   exit_status, runs, nOK, attempted, pre, loaded, ingest>>

(* Line 218: bot.vectorstore.add_documents(splits) *)
AddSplitsOK ==
    /\ pc = "Adding"
    /\ chroma_db' = chroma_db \o splits
    /\ pc' = "IngestDone"
    /\ UNCHANGED <<pickle_file, conversation_history, memory, user_input,
                   answer, raised_at, exit_status, runs, nOK, attempted,
                   pre, loaded, ingest>>

(* add_documents raises: nothing is stored. *)
AddSplitsFail ==
    /\ pc = "Adding"
    /\ pc' = "IngestError"
    /\ UNCHANGED <<pickle_file, conversation_history, memory, user_input,
                   answer, raised_at, exit_status, runs, nOK, attempted,
                   pre, loaded, chroma_db, ingest>>

(* Lines 220 and 225: the success message, then continue. *)
IngestReport ==
    /\ pc = "IngestDone"
    /\ pc' = "Idle"
    /\ ResetIngest
    /\ UNCHANGED <<pickle_file, conversation_history, memory, user_input,
                   answer, raised_at, exit_status, runs, nOK, attempted,
                   pre, loaded, chroma_db>>

(* Lines 222-225: except Exception prints the error, then continue. *)
IngestCaught ==
    /\ pc = "IngestError"
    /\ pc' = "Idle"
    /\ ResetIngest
    /\ UNCHANGED <<pickle_file, conversation_history, memory, user_input,
                   answer, raised_at, exit_status, runs, nOK, attempted,
                   pre, loaded, chroma_db>>

----------------------------------------------------------------------------
(* The other public methods, called on a bot that waits between turns *)

(* add_documents(documents, metadatas): one Document per text, with its    *)
(* metadata when metadatas is given.                                       *)
AddDocuments ==
    /\ pc = "Idle"
    /\ Len(OtherDocuments(chroma_db)) < MaxOtherDocs
    /\ \E meta \in {"no metadata", "m1"} :
         chroma_db' = Append(chroma_db, <<"document", "d1", meta>>)
    /\ UNCHANGED <<pickle_file, conversation_history, memory, user_input,
                   answer, raised_at, exit_status, runs, nOK, attempted,
                   pre, loaded, pc, ingest>>

(* test_retrieval(query, k): similarity_search, then the documents are     *)
(* printed.                                                                *)
TestRetrieval ==
    /\ pc = "Idle"
    /\ pc' = "TestRetrieval"
    /\ UNCHANGED <<pickle_file, conversation_history, memory, user_input,
                   answer, raised_at, exit_status, runs, nOK, attempted,
                   pre, loaded, chroma_db, ingest>>

TestRetrievalReturn ==
    /\ pc = "TestRetrieval"
    /\ pc' = "Idle"
    /\ UNCHANGED <<pickle_file, conversation_history, memory, user_input,
                   answer, raised_at, exit_status, runs, nOK, attempted,
                   pre, loaded, chroma_db, ingest>>

(* get_conversation_history(): the list is handed to the caller. *)
GetConversationHistory ==
    /\ pc = "Idle"
    /\ pc' = "GetHistory"
    /\ UNCHANGED <<pickle_file, conversation_history, memory, user_input,
                   answer, raised_at, exit_status, runs, nOK, attempted,
                   pre, loaded, chroma_db, ingest>>

GetConversationHistoryReturn ==
    /\ pc = "GetHistory"
    /\ pc' = "Idle"
    /\ UNCHANGED <<pickle_file, conversation_history, memory, user_input,
                   answer, raised_at, exit_status, runs, nOK, attempted,
                   pre, loaded, chroma_db, ingest>>

----------------------------------------------------------------------------
(* How the process ends other than by an exit keyword *)

(* Neither __init__ nor bot.chat is called inside a try block: the         *)
(* exception leaves the while loop and the interpreter exits.              *)
Unhandled ==
    /\ pc = "Raised"
    /\ pc' = "Off"
    /\ exit_status' = "traceback"
    /\ ProcessGone
    /\ UNCHANGED <<pickle_file, chroma_db, raised_at, runs, nOK, loaded>>

(* The process is killed (power loss, SIGKILL) wherever it is; a kill      *)
(* during pickle.dump leaves the prefix written so far.                    *)
Crash ==
    /\ pc \notin {"Off", "Raised"}
    /\ IF pc = "SaveDump"
       THEN pickle_file' \in Prefixes(PickleDump(conversation_history))
       ELSE UNCHANGED pickle_file
    /\ pc' = "Off"
    /\ exit_status' = "killed"
    /\ ProcessGone
    /\ UNCHANGED <<chroma_db, raised_at, runs, nOK, loaded>>

Next ==
    \/ Start
    \/ LoadPickle
    \/ InitVectorstore
    \/ InitVectorstoreFail
    \/ PopulateMemory
    \/ Quit
    \/ BeginChat
    \/ RetrieveOK
    \/ RetrieveFail
    \/ GenerateOK
    \/ GenerateFail
    \/ AppendExchange
    \/ IndexAddOK
    \/ IndexAddFail
    \/ SaveOpenOK
    \/ SaveOpenFail
    \/ SaveDumpOK
    \/ SaveDumpFail
    \/ IngestBegin
    \/ ChooseLoader
    \/ LoadDocumentOK
    \/ LoadDocumentFail
    \/ SplitOK
    \/ SplitFail
    \/ AddSplitsOK
    \/ AddSplitsFail
    \/ IngestReport
    \/ IngestCaught
    \/ AddDocuments
    \/ TestRetrieval
    \/ TestRetrievalReturn
    \/ GetConversationHistory
    \/ GetConversationHistoryReturn
    \/ Unhandled
    \/ Crash

Spec == Init /\ [][Next]_vars

----------------------------------------------------------------------------
(* The history store on its own: any history is saved and loaded back, by  *)
(* run_astrobot.py (_save_pickle, _load_pickle) and by rag_astrobot.py     *)
(* (_serialize_messages + pickle.dump, pickle.load + _deserialize_messages)*)

MessageSet == [role : Roles, content : Contents]

AllHistories == UNION {[1..n -> MessageSet] : n \in 0..MaxStoreLen}

InitStore ==
    /\ pc = "Store"
    /\ pickle_file = NoFile
    /\ chroma_db = <<>>
    /\ conversation_history \in AllHistories
    /\ memory = PopulatedMemory(conversation_history)
    /\ user_input = None
    /\ answer = None
    /\ raised_at = "none"
    /\ exit_status = "none"
    /\ runs = 0
    /\ nOK = 0
    /\ attempted = {}
    /\ pre = NoTurn
    /\ loaded = None
    /\ doc_path = None
    /\ loader = None
    /\ warned = FALSE
    /\ splits = <<>>

(* _save_pickle(), both lines. *)
StoreSavePickle ==
    /\ pc = "Store"
    /\ pickle_file' = PickleDump(conversation_history)
    /\ pc' = "SavedRun"
    /\ UNCHANGED <<chroma_db, conversation_history, memory, user_input,
                   answer, raised_at, exit_status, runs, nOK, attempted,
                   pre, loaded, ingest>>

(* _load_pickle() *)
StoreLoadPickle ==
    /\ pc = "SavedRun"
    /\ loaded' = _load_pickle(pickle_file)
    /\ pc' = "LoadedRun"
    /\ UNCHANGED <<pickle_file, chroma_db, conversation_history, memory,
                   user_input, answer, raised_at, exit_status, runs, nOK,
                   attempted, pre, ingest>>

(* rag_astrobot.py, lines 123-124 *)
StoreRagSave ==
    /\ pc = "Store"
    /\ pickle_file' = PickleDumpPairs(_serialize_messages(memory))
    /\ pc' = "SavedRag"
    /\ UNCHANGED <<chroma_db, conversation_history, memory, user_input,
                   answer, raised_at, exit_status, runs, nOK, attempted,
                   pre, loaded, ingest>>

(* rag_astrobot.py, lines 89-98 *)
StoreRagLoad ==
    /\ pc = "SavedRag"
    /\ loaded' = RagLoadMemory(pickle_file)
    /\ pc' = "LoadedRag"
    /\ UNCHANGED <<pickle_file, chroma_db, conversation_history, memory,
                   user_input, answer, raised_at, exit_status, runs, nOK,
                   attempted, pre, ingest>>

(* _add_history_to_vectorstore(vectorstore) on the history at hand *)
StoreAddHistory ==
    /\ pc = "Store"
    /\ chroma_db' = chroma_db \o HistoryDocuments(conversation_history, 1)
    /\ pc' = "Indexed"
    /\ UNCHANGED <<pickle_file, conversation_history, memory, user_input,
                   answer, raised_at, exit_status, runs, nOK, attempted,
                   pre, loaded, ingest>>

NextStore ==
    \/ StoreSavePickle
    \/ StoreLoadPickle
    \/ StoreRagSave
    \/ StoreRagLoad
    \/ StoreAddHistory

SpecStore == InitStore /\ [][NextStore]_vars

----------------------------------------------------------------------------
(* rag_astrobot.py as a process: the memory file is loaded at startup, the *)
(* chain extends the memory on every query, and the file is written in the *)
(* exit branch of the loop.                                                *)

(* Line 120: the keywords the loop compares the query with. *)
RagExitKeywords == {"bye", "power down", "shutdown", "exit"}

RagLines == ExitKeywords \cup Queries \cup {"", "  "}

(* str.strip() on the lines above *)
Strip(line) == IF line = "  " THEN "" ELSE line

InitRag ==
    /\ pc = "RagOff"
    /\ pickle_file = NoFile
    /\ chroma_db = <<>>
    /\ conversation_history = <<>>
    /\ memory = <<>>
    /\ user_input = None
    /\ answer = None
    /\ raised_at = "none"
    /\ exit_status = "none"
    /\ runs = 0
    /\ nOK = 0
    /\ attempted = {}
    /\ pre = NoTurn
    /\ loaded = None
    /\ doc_path = None
    /\ loader = None
    /\ warned = FALSE
    /\ splits = <<>>

(* The script is run. *)
RagStart ==
    /\ pc = "RagOff"
    /\ runs < MaxRuns
    /\ pc' = "RagLoad"
    /\ runs' = runs + 1
    /\ raised_at' = "none"
    /\ exit_status' = "running"
    /\ pre' = Snapshot
    /\ UNCHANGED <<pickle_file, chroma_db, conversation_history, memory,
                   user_input, answer, nOK, attempted, loaded, ingest>>

(* Lines 89-98 *)
RagLoad ==
    /\ pc = "RagLoad"
    /\ LET r == RagLoadMemory(pickle_file) IN
         IF r.raise
         THEN /\ pc' = "RagRaised"
              /\ raised_at' = "RagLoad"
              /\ UNCHANGED memory
         ELSE /\ pc' = "RagIdle"
              /\ memory' = r.value
              /\ UNCHANGED raised_at
    /\ UNCHANGED <<pickle_file, chroma_db, conversation_history, user_input,
                   answer, exit_status, runs, nOK, attempted, pre, loaded,
                   ingest>>

(* Lines 119-121: the query is one of the four keywords. *)
RagExit ==
    /\ pc = "RagIdle"
    /\ \E query \in RagLines :
         /\ query \in RagExitKeywords
         /\ user_input' = query
    /\ pc' = "RagSaveOpen"
    /\ UNCHANGED <<pickle_file, memory, raised_at, exit_status, pre>>
    /\ UNCHANGED <<chroma_db, conversation_history, answer, runs, nOK,
                   attempted, loaded, ingest>>

(* Lines 129-130: a blank query is skipped. *)
RagBlank ==
    /\ pc = "RagIdle"
    /\ \E query \in RagLines :
         /\ query \notin RagExitKeywords
         /\ Strip(query) = ""
         /\ user_input' = query
    /\ pc' = "RagIdle"
    /\ UNCHANGED <<pickle_file, memory, raised_at, exit_status, pre>>
    /\ UNCHANGED <<chroma_db, conversation_history, answer, runs, nOK,
                   attempted, loaded, ingest>>

(* Line 133 is reached with any other query. *)
RagQuery ==
    /\ pc = "RagIdle"
    /\ Len(memory) < 2 * MaxExchanges
    /\ \E query \in RagLines :
         /\ query \notin RagExitKeywords
         /\ Strip(query) # ""
         /\ user_input' = query
    /\ pc' = "RagInvoke"
    /\ UNCHANGED <<pickle_file, memory, raised_at, exit_status, pre>>
    /\ UNCHANGED <<chroma_db, conversation_history, answer, runs, nOK,
                   attempted, loaded, ingest>>

(* The chain that also writes the memory file after every answer. *)
RagInvokeOK_AutoSave ==
    /\ pc = "RagInvoke"
    /\ \E a \in Answers :
         /\ memory' = SaveContext(memory, user_input, a)
         /\ pickle_file' = PickleDumpPairs(_serialize_messages(memory'))
    /\ pc' = "RagIdle"
    /\ UNCHANGED <<user_input, raised_at, exit_status, pre>>
    /\ UNCHANGED <<chroma_db, conversation_history, answer, runs, nOK,
                   attempted, loaded, ingest>>

(* qa_chain.invoke returns: the chain has saved question and answer into   *)
(* the memory.                                                             *)
RagInvokeOK ==
    /\ pc = "RagInvoke"
    /\ \E a \in Answers : memory' = SaveContext(memory, user_input, a)
    /\ pc' = "RagIdle"
    /\ UNCHANGED <<pickle_file, user_input, raised_at, exit_status, pre>>
    /\ UNCHANGED <<chroma_db, conversation_history, answer, runs, nOK,
                   attempted, loaded, ingest>>

(* qa_chain.invoke raises; line 133 is not inside a try block. *)
RagInvokeFail ==
    /\ pc = "RagInvoke"
    /\ pc' = "RagRaised"
    /\ raised_at' = "RagInvoke"
    /\ UNCHANGED <<pickle_file, memory, user_input, exit_status, pre>>
    /\ UNCHANGED <<chroma_db, conversation_history, answer, runs, nOK,
                   attempted, loaded, ingest>>

(* Line 123: open(memory_file, "wb") creates or truncates the file. *)
RagSaveOpenOK ==
    /\ pc = "RagSaveOpen"
    /\ pickle_file' = <<>>
    /\ pc' = "RagSaveDump"
    /\ UNCHANGED <<memory, user_input, raised_at, exit_status, pre>>
    /\ UNCHANGED <<chroma_db, conversation_history, answer, runs, nOK,
                   attempted, loaded, ingest>>

(* open() raises: "Failed to save memory" is printed, then break. *)
RagSaveOpenFail ==
    /\ pc = "RagSaveOpen"
    /\ pc' = "RagOff"
    /\ exit_status' = "save failed"
    /\ ProcessGone
    /\ UNCHANGED <<pickle_file, chroma_db, raised_at, runs, nOK, loaded>>

(* Lines 124-128: the serialised messages are dumped, then break. *)
RagSaveDumpOK ==
    /\ pc = "RagSaveDump"
    /\ pickle_file' = PickleDumpPairs(_serialize_messages(memory))
    /\ pc' = "RagOff"
    /\ exit_status' = "saved"
    /\ ProcessGone
    /\ UNCHANGED <<chroma_db, raised_at, runs, nOK, loaded>>

(* pickle.dump raises part-way: "Failed to save memory", then break. *)
RagSaveDumpFail ==
    /\ pc = "RagSaveDump"
    /\ pickle_file' \in Prefixes(PickleDumpPairs(_serialize_messages(memory)))
    /\ pc' = "RagOff"
    /\ exit_status' = "save failed"
    /\ ProcessGone
    /\ UNCHANGED <<chroma_db, raised_at, runs, nOK, loaded>>

(* An exception of the load or of the chain ends the script. *)
RagUnhandled ==
    /\ pc = "RagRaised"
    /\ pc' = "RagOff"
    /\ exit_status' = "traceback"
    /\ ProcessGone
    /\ UNCHANGED <<pickle_file, chroma_db, raised_at, runs, nOK, loaded>>

(* The process is killed wherever it is. *)
RagCrash ==
    /\ pc \in {"RagLoad", "RagIdle", "RagInvoke", "RagSaveOpen", "RagSaveDump"}
    /\ IF pc = "RagSaveDump"
       THEN pickle_file' \in Prefixes(PickleDumpPairs(_serialize_messages(memory)))
       ELSE UNCHANGED pickle_file
    /\ pc' = "RagOff"
    /\ exit_status' = "killed"
    /\ ProcessGone
    /\ UNCHANGED <<chroma_db, raised_at, runs, nOK, loaded>>

NextRag ==
    \/ RagStart
    \/ RagLoad
    \/ RagExit
    \/ RagBlank
    \/ RagQuery
    \/ RagInvokeOK
    \/ RagInvokeFail
    \/ RagSaveOpenOK
    \/ RagSaveOpenFail
    \/ RagSaveDumpOK
    \/ RagSaveDumpFail
    \/ RagUnhandled
    \/ RagCrash

SpecRag == InitRag /\ [][NextRag]_vars

----------------------------------------------------------------------------
(* Properties *)

IsExchangeDocument(d) == d[1] = "Human: "

ExchangeDocuments(index) == SelectSeq(index, IsExchangeDocument)

CountIn(seq, x) == Cardinality({i \in DOMAIN seq : seq[i] = x})

(* Positions of the completed exchanges of a history. *)
ExchangeAt(hist) ==
    {i \in 1..(Len(hist) - 1) :
        hist[i].role = "HumanMessage" /\ hist[i + 1].role = "AIMessage"}

ExchangeText(hist, i) == CombinedText(hist[i].content, hist[i + 1].content)

SameMessages(mem, hist) ==
    /\ Len(mem) = Len(hist)
    /\ \A i \in 1..Len(hist) :
         mem[i].type = hist[i].role /\ mem[i].content = hist[i].content

TurnSteps == {"Retrieving", "Generating", "IndexAdd", "SaveOpen", "SaveDump"}

(* C1: between turns, every completed exchange of the history has exactly  *)
(* one combined document in the index (as many documents with its text as  *)
(* the history has exchanges with that text).                              *)
C1_IndexHistoryParity ==
    pc = "Idle" =>
        \A i \in ExchangeAt(conversation_history) :
            CountIn(chroma_db, ExchangeText(conversation_history, i))
              = Cardinality({j \in ExchangeAt(conversation_history) :
                               ExchangeText(conversation_history, j)
                                 = ExchangeText(conversation_history, i)})

(* C2: in the first run from the fresh state, after nOK chat() calls have  *)
(* returned, the index holds nOK exchange documents and the history 2*nOK  *)
(* messages.                                                               *)
C2_ParityFromFresh ==
    (pc = "Idle" /\ runs = 1) =>
        /\ Len(ExchangeDocuments(chroma_db)) = nOK
        /\ Len(conversation_history) = 2 * nOK

C2_Witness ==
    /\ pc = "Idle"
    /\ runs = 1
    /\ nOK = 2
    /\ Len(ExchangeDocuments(chroma_db)) = 2

(* C3: startup on an existing history and an existing index leaves the     *)
(* documents of the index as they were.                                    *)
C3_StartupKeepsIndex ==
    [][(pc = "InitVectorstore" /\ conversation_history # <<>> /\ chroma_db # <<>>)
          => chroma_db' = chroma_db]_vars

(* C4: once the process has ended, however it ended, the history file is   *)
(* absent or a complete, loadable history.                                 *)
C4_AtomicPersist ==
    pc = "Off" => ~_load_pickle(pickle_file).raise

(* C5: when a commit step of a turn fails, both the index insertion and    *)
(* the history write have been attempted.                                  *)
C5_IndependentFailures ==
    (pc = "Raised" /\ raised_at \in {"IndexAdd", "SaveOpen", "SaveDump"})
        => attempted = {"index", "persist"}

(* C6: when retrieval or generation fails, history, dialogue context,      *)
(* history file and index are what they were when the turn began.          *)
C6_NoCommitOnFailure ==
    (pc = "Raised" /\ raised_at \in {"Retrieving", "Generating"}) =>
        /\ conversation_history = pre.h
        /\ memory = pre.m
        /\ pickle_file = pre.f
        /\ chroma_db = pre.c

C6_Witness ==
    /\ pc = "Raised"
    /\ raised_at = "Generating"
    /\ Len(conversation_history) = 2
    /\ Len(chroma_db) >= 1
    /\ pickle_file # NoFile

(* C7: a turn that failed is followed by the loop waiting for the next     *)
(* query.                                                                  *)
C7_LoopSurvivesFailure ==
    [][(pc = "Raised" /\ raised_at \in TurnSteps) => pc' = "Idle"]_vars

(* C8: a history that was saved and loaded back is the history that was    *)
(* saved, in run_astrobot.py and in rag_astrobot.py.                       *)
C8_RoundTrip ==
    /\ pc = "LoadedRun" =>
         (~loaded.raise /\ loaded.value = conversation_history)
    /\ pc = "LoadedRag" =>
         (~loaded.raise /\ loaded.value = memory)

C8_Witness ==
    /\ pc = "LoadedRag"
    /\ Len(memory) = 3
    /\ memory[1].type = "AIMessage"
    /\ memory[2].type = "HumanMessage"
    /\ memory[3].type = "HumanMessage"
    /\ loaded.value = memory

(* C9: loading starts from an empty history when there is no file, and a   *)
(* malformed file raises, which ends the startup: the bot never waits for  *)
(* a query with anything but the history of a loadable file.               *)
C9_LoadContract ==
    [][/\ (pc = "LoadPickle" /\ pc' # "Off" /\ pickle_file = NoFile)
            => (pc' = "InitVectorstore" /\ conversation_history' = <<>>)
       /\ (pc = "LoadPickle" /\ pc' # "Off" /\ pickle_file # NoFile
             /\ ~WellFormed(pickle_file, "DICT"))
            => (pc' = "Raised" /\ raised_at' = "LoadPickle")
       /\ (pc = "Raised" /\ raised_at = "LoadPickle") => pc' = "Off"]_vars

C9_Witness ==
    /\ pc = "Off"
    /\ exit_status = "traceback"
    /\ raised_at = "LoadPickle"
    /\ pickle_file # NoFile
    /\ ~WellFormed(pickle_file, "DICT")

(* C10: between turns the dialogue context holds the messages of the       *)
(* history, same order, roles and contents.                                *)
C10_ContextSynchronized ==
    pc = "Idle" => SameMessages(memory, conversation_history)

C10_Witness ==
    /\ pc = "Idle"
    /\ runs = 2
    /\ nOK = 2
    /\ Len(memory) = 4
    /\ Len(conversation_history) = 4

(* C11: when the history write of a turn fails, the exception leaves       *)
(* chat() with both messages of the turn in the in-memory history; chat()  *)
(* returns normally only when the file holds the whole history.            *)
C11_PersistFailureSurfaced ==
    [][/\ (pc \in {"SaveOpen", "SaveDump"} /\ pc' = "Raised")
            => /\ raised_at' = pc
               /\ conversation_history' =
                      pre.h \o <<Message("HumanMessage", user_input),
                                 Message("AIMessage", answer)>>
       /\ (pc \in {"SaveOpen", "SaveDump"} /\ pc' = "Idle")
            => pickle_file' = PickleDump(conversation_history')]_vars

C11_Witness ==
    /\ pc = "Raised"
    /\ raised_at = "SaveDump"
    /\ Len(conversation_history) = 4
    /\ conversation_history[3] = Message("HumanMessage", user_input)
    /\ conversation_history[4] = Message("AIMessage", answer)
    /\ pickle_file # PickleDump(conversation_history)

Phase(p) ==
    CASE p = "Idle" -> "Idle"
      [] p = "Retrieving" -> "Retrieving"
      [] p = "Generating" -> "Generating"
      [] p \in {"Append", "IndexAdd", "SaveOpen", "SaveDump"} -> "Persisting"
      [] OTHER -> "Outside"

(* C12: a turn moves Idle -> Retrieving -> Generating -> Persisting ->     *)
(* Idle; Persisting is entered only with the answer of the generation      *)
(* call, nothing is appended, indexed or written while retrieving or       *)
(* generating, and a turn begins only from Idle.                           *)
C12_TurnOrder ==
    [][/\ (Phase(pc') = "Retrieving" /\ Phase(pc) # "Retrieving") => pc = "Idle"
       /\ (Phase(pc') = "Generating" /\ Phase(pc) # "Generating") => pc = "Retrieving"
       /\ (Phase(pc') = "Persisting" /\ Phase(pc) # "Persisting")
            => (pc = "Generating" /\ answer' \in Answers)
       /\ (Phase(pc') = "Idle" /\ Phase(pc) \in {"Retrieving", "Generating", "Persisting"})
            => pc = "SaveDump"
       /\ (Phase(pc) \in {"Idle", "Retrieving", "Generating"} /\ pc' # "Off")
            => /\ conversation_history' = conversation_history
               /\ pickle_file' = pickle_file
               /\ ExchangeDocuments(chroma_db') = ExchangeDocuments(chroma_db)]_vars

C12_Witness ==
    /\ pc = "Idle"
    /\ runs = 1
    /\ nOK = 1
    /\ conversation_history = <<Message("HumanMessage", "q2"), Message("AIMessage", "a1")>>
    /\ pickle_file = PickleDump(conversation_history)
    /\ ExchangeDocuments(chroma_db) = <<CombinedText("q2", "a1")>>

HumanAt(hist) == {i \in 1..Len(hist) : hist[i].role = "HumanMessage"}

(* C17: _add_history_to_vectorstore adds one document per Human message,   *)
(* in order: the k-th Human message with the Assistant message right after *)
(* it, or with an empty assistant part when none follows.                  *)
C17_OneDocumentPerHuman ==
    pc = "Indexed" =>
        /\ Len(chroma_db) = Cardinality(HumanAt(conversation_history))
        /\ \A i \in HumanAt(conversation_history) :
             chroma_db[Cardinality({j \in HumanAt(conversation_history) : j <= i})]
               = <<"Human: ", conversation_history[i].content, "\nAssistant: ",
                   IF i + 1 <= Len(conversation_history)
                        /\ conversation_history[i + 1].role = "AIMessage"
                   THEN conversation_history[i + 1].content
                   ELSE "">>

C17_Witness ==
    /\ pc = "Indexed"
    /\ Len(conversation_history) = 3
    /\ conversation_history[1].role = "AIMessage"
    /\ conversation_history[2].role = "HumanMessage"
    /\ conversation_history[3].role = "HumanMessage"
    /\ Len(chroma_db) = 2
    /\ chroma_db[1][4] = ""

IsPrefix(s, t) == Len(s) <= Len(t) /\ SubSeq(t, 1, Len(s)) = s

Loadable(file) == file = NoFile \/ WellFormed(file, "DICT")

HistoryInMemory ==
    /\ pc \notin {"Off", "LoadPickle"}
    /\ ~(pc = "Raised" /\ raised_at = "LoadPickle")

ThisExchange ==
    <<Message("HumanMessage", user_input), Message("AIMessage", answer)>>

(* C18: chat() appends, then indexes, then writes the file.  So a loadable *)
(* history file holds a prefix of the in-memory history, every exchange in *)
(* it has its document in the index, the index is extended only after the  *)
(* append and before the write, and the file is written only after both.   *)
C18_CommitOrder ==
    /\ [](/\ (HistoryInMemory /\ Loadable(pickle_file))
               => IsPrefix(_load_pickle(pickle_file).value, conversation_history)
          /\ Loadable(pickle_file)
               => \A i \in ExchangeAt(_load_pickle(pickle_file).value) :
                      CountIn(chroma_db, ExchangeText(_load_pickle(pickle_file).value, i)) >= 1)
    /\ [][/\ (Phase(pc) = "Persisting"
                /\ ExchangeDocuments(chroma_db') # ExchangeDocuments(chroma_db))
               => /\ conversation_history = pre.h \o ThisExchange
                  /\ pickle_file = pre.f
                  /\ pickle_file' = pickle_file
          /\ (Phase(pc) = "Persisting" /\ pickle_file' # pickle_file)
               => /\ conversation_history = pre.h \o ThisExchange
                  /\ ExchangeDocuments(chroma_db)
                       = ExchangeDocuments(pre.c) \o <<CombinedText(user_input, answer)>>]_vars

C18_Witness ==
    /\ pc = "Off"
    /\ exit_status = "killed"
    /\ ExchangeDocuments(chroma_db) = <<CombinedText("q1", "a1")>>
    /\ pickle_file = NoFile

IngestSteps == {"DocPath", "Loading", "Splitting", "Adding", "IngestDone", "IngestError"}

MethodSteps == {"TestRetrieval", "GetHistory"}

(* C13: document ingestion (whether it succeeds or fails), add_documents,  *)
(* test_retrieval and get_conversation_history leave the in-memory history *)
(* and the history file as they are; in a running process the history      *)
(* changes only by chat() appending one Human and one Assistant message    *)
(* after the messages it held when the turn began.                         *)
C13_HistoryAppendOnly ==
    [][/\ (pc \in IngestSteps \cup MethodSteps /\ pc' # "Off")
            => (conversation_history' = conversation_history
                  /\ pickle_file' = pickle_file)
       /\ (pc = "Idle" /\ pc' \in {"Idle", "DocPath", "TestRetrieval", "GetHistory"})
            => (conversation_history' = conversation_history
                  /\ pickle_file' = pickle_file)
       /\ (conversation_history' # conversation_history
             /\ pc' # "Off" /\ pc # "LoadPickle")
            => /\ pc = "Append"
               /\ conversation_history' =
                      pre.h \o <<[role |-> "HumanMessage", content |-> user_input],
                                 [role |-> "AIMessage", content |-> answer]>>
       /\ (Phase(pc) = "Persisting" /\ pc' = "Idle")
            => IsPrefix(pre.h, conversation_history')
                 /\ Len(conversation_history') = Len(pre.h) + 2]_vars

C13_Witness ==
    /\ pc = "IngestDone"
    /\ splits # <<>>
    /\ Len(OtherDocuments(chroma_db)) = 1
    /\ Len(conversation_history) = 2
    /\ pickle_file = PickleDump(conversation_history)

(* C14: the loader is TextLoader, PyPDFLoader or Docx2txtLoader for a path *)
(* ending in .txt, .pdf or .docx, and TextLoader after a warning for any   *)
(* other path; a failure of loading, splitting or indexing goes to the     *)
(* except branch, which reports it and returns to the prompt.              *)
C14_LoaderDispatch ==
    [][/\ (pc = "DocPath" /\ pc' = "Loading")
            => /\ EndsWith(doc_path', <<".", "t", "x", "t">>)
                    => (loader' = "TextLoader" /\ ~warned')
               /\ EndsWith(doc_path', <<".", "p", "d", "f">>)
                    => (loader' = "PyPDFLoader" /\ ~warned')
               /\ EndsWith(doc_path', <<".", "d", "o", "c", "x">>)
                    => (loader' = "Docx2txtLoader" /\ ~warned')
               /\ (/\ ~EndsWith(doc_path', <<".", "t", "x", "t">>)
                   /\ ~EndsWith(doc_path', <<".", "p", "d", "f">>)
                   /\ ~EndsWith(doc_path', <<".", "d", "o", "c", "x">>))
                    => (loader' = "TextLoader" /\ warned')
       /\ (pc = "DocPath" /\ pc' # "Off") => pc' = "Loading"
       /\ (pc = "Loading" /\ pc' # "Off") => pc' \in {"Splitting", "IngestError"}
       /\ (pc = "Splitting" /\ pc' # "Off") => pc' \in {"Adding", "IngestError"}
       /\ (pc = "Adding" /\ pc' # "Off") => pc' \in {"IngestDone", "IngestError"}
       /\ (pc \in {"IngestDone", "IngestError"} /\ pc' # "Off") => pc' = "Idle"
       /\ (pc = "IngestError" /\ pc' = "Idle")
            => (chroma_db' = chroma_db /\ memory' = memory)]_vars

C14_Witness ==
    /\ pc = "IngestError"
    /\ doc_path = <<"a", ".", "P", "D", "F">>
    /\ loader = "TextLoader"
    /\ warned
    /\ splits = <<>>

(* C15: a line that is one of quit, exit, shutdown, power down, bye ends   *)
(* the read loop; no turn is run for it.                                   *)
C15_ExitKeywordsEndLoop ==
    [][(pc = "RagIdle" /\ user_input' \in ExitKeywords) => pc' # "RagInvoke"]_vars

RagSaveSteps == {"RagSaveOpen", "RagSaveDump"}

RagMemoryFile == PickleDumpPairs(_serialize_messages(memory))

(* C19 as claimed: the file is left alone outside the exit branch; when    *)
(* the run ends after an exit keyword the file holds the dialogue context  *)
(* of that moment, and when it ends any other way the file is the pre-run  *)
(* file.                                                                   *)
C19_SavedOnExitOnly ==
    [][/\ (pc \notin RagSaveSteps) => pickle_file' = pickle_file
       /\ (pc # "RagOff" /\ pc' = "RagOff")
            => IF pc \in RagSaveSteps /\ exit_status' # "killed"
               THEN RagLoadMemory(pickle_file') = [raise |-> FALSE, value |-> memory]
               ELSE pickle_file' = pre.f]_vars

(* C19, amended: the file is left alone outside the exit branch; when the  *)
(* write of the exit branch succeeds the file holds the dialogue context   *)
(* of that moment; when that write fails or is interrupted the file is the *)
(* pre-run file or a truncated one; when the run ends any other way the    *)
(* file is the pre-run file.                                               *)
C19_SavedOnExitIfWritten ==
    [][/\ (pc \notin RagSaveSteps) => pickle_file' = pickle_file
       /\ (pc # "RagOff" /\ pc' = "RagOff")
            => IF exit_status' = "saved"
               THEN /\ pc = "RagSaveDump"
                    /\ user_input \in RagExitKeywords
                    /\ RagLoadMemory(pickle_file') = [raise |-> FALSE, value |-> memory]
               ELSE IF pc \in RagSaveSteps
               THEN pickle_file' = pre.f \/ pickle_file' \in Prefixes(RagMemoryFile)
               ELSE pickle_file' = pre.f]_vars

C19_Witness ==
    /\ pc = "RagOff"
    /\ exit_status = "saved"
    /\ runs = 2
    /\ RagLoadMemory(pickle_file).value =
         <<[type |-> "HumanMessage", content |-> "q1"],
           [type |-> "AIMessage", content |-> "a1"],
           [type |-> "HumanMessage", content |-> "quit"],
           [type |-> "AIMessage", content |-> "a1"]>>

====
